---- MODULE Spec2Model ----
(***************************************************************************)
(* Model of the UAVCrew MCP gateway's authentication pipeline:             *)
(*   auth.py            load_public_key, validate_delegation_token         *)
(*   token_resolver.py  TokenResolver.__init__ / resolve                   *)
(*   server.py          context variables, _check_scope, the four tool     *)
(*                      handlers, _load_api_keys, AuthMiddleware.dispatch  *)
(*   api_client.py      ApiClient.request (the Authorization header)       *)
(*                                                                         *)
(* Python text (str, bytes) is a sequence of atoms: <<"Bearer ", "K4">> is *)
(* the text "Bearer K4".  Operations on text (startswith, slicing, count,  *)
(* strip, split, replace, f-strings) work on the atoms.  A value that may  *)
(* be None or an object is a record tagged with its Python type.           *)
(***************************************************************************)
EXTENDS Naturals, Integers, Sequences, FiniteSets, TLC

VARIABLES
    env,               \* os.environ at import time (read-only afterwards)
    auth_config,       \* _manifest["auth"] after load_manifest
    _public_key,       \* server.py: K3 loaded at startup, or None
    _legacy_api_keys,  \* server.py: set of configured legacy keys
    _resolver,         \* server.py: the TokenResolver instance
    now,               \* wall clock, in seconds
    request,           \* per call: the inbound HTTP request
    pc,                \* per call: position of AuthMiddleware.dispatch
    locals,            \* per call: dispatch's local variables token, claims, k4
    ctx,               \* per context: _current_claims, _current_token, _current_t1_jwt
    response,          \* per call: what dispatch returned (or raised)
    tool,              \* per call: the latest tool invocation made downstream, with
                       \* the backend request it issued; None before the first
    ntools,            \* per call: number of tool invocations made downstream
    resolver_posts,    \* POSTs issued to the dynamic resolver endpoint
    resolved,          \* the latest direct call of _resolver.resolve with its
                       \* arguments and outcome; None before the first
    loaded,            \* the latest load of a manifest with its outcome; None
                       \* before the first
    tenants,           \* tenant_db.py: the rows of table tenants
    db_call            \* the latest call of a tenant_db function with its
                       \* arguments and return value; None before the first

vars == <<env, auth_config, _public_key, _legacy_api_keys, _resolver, now,
          request, pc, locals, ctx, response, tool, ntools, resolver_posts,
          resolved, loaded, tenants, db_call>>

config_vars == <<env, auth_config, _public_key, _legacy_api_keys, _resolver>>

\* State outside the server process: manifest loading and the tenant store.
aux_vars == <<loaded, tenants, db_call>>

-----------------------------------------------------------------------------
(* Bounds *)

MaxTime == 2
MaxToolCalls == 1

Calls == {"A", "B"}

-----------------------------------------------------------------------------
(* Python values *)

None == [kind |-> "None"]
Str(s) == [kind |-> "str", val |-> s]

\* A test for None in place of the truth value: empty text passes.
TruthyNotNone(v) == v.kind # "None"

\* bool(v): None and empty text are falsy; a dataclass instance that defines
\* neither __bool__ nor __len__ is always truthy.
Truthy(v) ==
    CASE v.kind = "None" -> FALSE
      [] v.kind = "str" -> v.val # <<>>
      [] OTHER -> TRUE

\* A count that reports two occurrences for every text.
CountAlwaysTwo(s, a) == 2

\* str.count(a)
Count(s, a) == Cardinality({i \in 1..Len(s) : s[i] = a})

\* str.startswith(a) for a one-atom prefix
StartsWith(s, a) == Len(s) >= 1 /\ s[1] = a

\* str.replace(a, by): every occurrence of the atom a becomes the text by
RECURSIVE Replace(_, _, _)
Replace(s, a, by) ==
    IF s = <<>> THEN <<>>
    ELSE (IF Head(s) = a THEN by ELSE <<Head(s)>>) \o Replace(Tail(s), a, by)

RECURSIVE LStrip(_)
LStrip(s) == IF s # <<>> /\ Head(s) = " " THEN LStrip(Tail(s)) ELSE s

RECURSIVE RStrip(_)
RStrip(s) ==
    IF s # <<>> /\ s[Len(s)] = " " THEN RStrip(SubSeq(s, 1, Len(s) - 1)) ELSE s

\* str.strip()
Strip(s) == RStrip(LStrip(s))

\* str.split(","): the pieces between "," atoms
RECURSIVE Split(_, _)
Split(s, piece) ==
    IF s = <<>> THEN <<piece>>
    ELSE IF Head(s) = "," THEN <<piece>> \o Split(Tail(s), <<>>)
    ELSE Split(Tail(s), Append(piece, Head(s)))

\* os.environ.get(name, "")
EnvGet(e, name) == IF name \in DOMAIN e THEN e[name] ELSE <<>>

\* dict.get(k, default) on a decoded JWT payload
Get(p, k, default) == IF k \in DOMAIN p THEN p[k] ELSE default

-----------------------------------------------------------------------------
(* auth.py *)

\* The files a key path may name, with their contents.
Files == (<<"/k3.pem">> :> <<"K3">>) @@ (<<"/empty.pem">> :> <<>>)

\* load_public_key(path): None for an empty path or a missing file, else the
\* file's bytes.
load_public_key(path) ==
    IF path = <<>> THEN None
    ELSE IF path \notin DOMAIN Files THEN None
    ELSE Str(Files[path])

Issuer == <<"https://api.uavcrew.ai">>
Audience == <<"mcp-gateway">>

Cap(operation, entity) == <<operation, ":", entity>>

BasePayload ==
    [iss |-> Issuer, sub |-> <<"agent:", "tucker">>, aud |-> Audience, exp |-> 1,
     tenant_id |-> <<"t-1">>, org_id |-> <<"org-1">>, session_id |-> <<"s-1">>,
     scope |-> <<Cap("read", "aircraft")>>, max_tier |-> <<"read_only">>,
     jti |-> <<"inv_1">>]

Without(p, keys) == [k \in DOMAIN p \ keys |-> p[k]]

\* The payloads a compact token may carry, by the name of their encoding.
Payloads ==
    [p_t1 |-> BasePayload,
     p_t2 |-> [BasePayload EXCEPT !.tenant_id = <<"t-2">>, !.sub = <<"sterling">>,
                 !.scope = <<Cap("read", "aircraft"), Cap("write", "aircraft"),
                             Cap("read", "company")>>,
                 !.max_tier = <<"execute">>, !.jti = <<"inv_2">>],
     p_min |-> Without(BasePayload,
                 {"org_id", "session_id", "scope", "max_tier", "jti"}),
     p_near |-> [BasePayload EXCEPT !.scope =
                   <<<<"read", ":", "air">>, Cap("write", "*"), Cap("read", "*"),
                     <<"read">>, <<"aircraft">>, Cap("write", "company")>>],
     p_iss |-> [BasePayload EXCEPT !.iss = <<"https://evil.com">>],
     p_aud |-> [BasePayload EXCEPT !.aud = <<"wrong-audience">>],
     p_notenant |-> Without(BasePayload, {"tenant_id"}),
     p_emptytenant |-> [BasePayload EXCEPT !.tenant_id = <<>>],
     p_nosub |-> Without(BasePayload, {"sub"}),
     p_noexp |-> Without(BasePayload, {"exp"}),
     p_agents |-> [BasePayload EXCEPT !.sub = <<"agent:", "ops-", "agent:", "x">>]]

\* A compact JWT: header "." payload "." signature.
Jwt(h, p, s) == <<h, ".", p, ".", s>>

JwtHeaders == [hdr_RS256 |-> "RS256", hdr_HS256 |-> "HS256"]

\* The signature s verifies under key for algorithm alg: sig_K2 is an RS256
\* signature by the private key K2 whose public half is K3; mac_K3 is an
\* HMAC keyed with the bytes of K3.
Verifies(s, alg, key) ==
    \/ alg = "RS256" /\ s = "sig_K2" /\ key = <<"K3">>
    \/ alg = "HS256" /\ s = "mac_K3" /\ key = <<"K3">>

Raise(e) == [ok |-> FALSE, error |-> e]

\* A decoder that still accepts a token in the second it expires.
JwtDecodeLateExpiry(token, key, algorithms, issuer, audience, require, t) ==
    IF ~(/\ Len(token) = 5
         /\ token[2] = "." /\ token[4] = "."
         /\ token[1] \in DOMAIN JwtHeaders
         /\ token[3] \in DOMAIN Payloads)
    THEN Raise("DecodeError")
    ELSE LET alg == JwtHeaders[token[1]]
             payload == Payloads[token[3]]
         IN  IF alg \notin algorithms THEN Raise("InvalidAlgorithmError")
             ELSE IF ~Verifies(token[5], alg, key)
                  THEN Raise("InvalidSignatureError")
             ELSE IF \E k \in require : k \notin DOMAIN payload
                  THEN Raise("MissingRequiredClaimError")
             ELSE IF payload.exp < t THEN Raise("ExpiredSignatureError")
             ELSE IF payload.iss # issuer THEN Raise("InvalidIssuerError")
             ELSE IF payload.aud # audience THEN Raise("InvalidAudienceError")
             ELSE [ok |-> TRUE, payload |-> payload]

\* jwt.decode(token, key, algorithms=..., issuer=..., audience=...,
\*            options={"require": ...}) evaluated at time t.
JwtDecode(token, key, algorithms, issuer, audience, require, t) ==
    IF ~(/\ Len(token) = 5
         /\ token[2] = "." /\ token[4] = "."
         /\ token[1] \in DOMAIN JwtHeaders
         /\ token[3] \in DOMAIN Payloads)
    THEN Raise("DecodeError")
    ELSE LET alg == JwtHeaders[token[1]]
             payload == Payloads[token[3]]
         IN  IF alg \notin algorithms THEN Raise("InvalidAlgorithmError")
             ELSE IF ~Verifies(token[5], alg, key)
                  THEN Raise("InvalidSignatureError")
             ELSE IF \E k \in require : k \notin DOMAIN payload
                  THEN Raise("MissingRequiredClaimError")
             ELSE IF payload.exp <= t THEN Raise("ExpiredSignatureError")
             ELSE IF payload.iss # issuer THEN Raise("InvalidIssuerError")
             ELSE IF payload.aud # audience THEN Raise("InvalidAudienceError")
             ELSE [ok |-> TRUE, payload |-> payload]

DelegationClaims(tenant_id, org_id, agent, scope, max_tier, session_id, jti) ==
    [kind |-> "DelegationClaims", tenant_id |-> tenant_id, org_id |-> org_id,
     agent |-> agent, scope |-> scope, max_tier |-> max_tier,
     session_id |-> session_id, jti |-> jti]

Algorithms == {"RS256"}

\* A validator that accepts a token whose tenant_id is missing or empty.
validate_delegation_token_tenant_optional(token, public_key, t) ==
    LET d == JwtDecode(token, public_key, Algorithms, Issuer, Audience,
                       {"exp", "iss", "aud", "sub"}, t)
    IN  IF ~d.ok THEN None
        ELSE LET payload == d.payload
                 sub == Get(payload, "sub", <<>>)
                 agent == IF StartsWith(sub, "agent:")
                          THEN Replace(sub, "agent:", <<>>) ELSE sub
             IN  IF FALSE
                 THEN None
                 ELSE DelegationClaims(Get(payload, "tenant_id", <<>>),
                                       Get(payload, "org_id", <<>>),
                                       agent,
                                       Get(payload, "scope", <<>>),
                                       Get(payload, "max_tier", <<"read_only">>),
                                       Get(payload, "session_id", <<>>),
                                       Get(payload, "jti", <<>>))

\* validate_delegation_token(token, public_key) at time t: DelegationClaims
\* on success, None on any failure.
validate_delegation_token(token, public_key, t) ==
    LET d == JwtDecode(token, public_key, Algorithms, Issuer, Audience,
                       {"exp", "iss", "aud", "sub"}, t)
    IN  IF ~d.ok THEN None
        ELSE LET payload == d.payload
                 sub == Get(payload, "sub", <<>>)
                 agent == IF StartsWith(sub, "agent:")
                          THEN Replace(sub, "agent:", <<>>) ELSE sub
             IN  IF "tenant_id" \notin DOMAIN payload \/ payload.tenant_id = <<>>
                 THEN None
                 ELSE DelegationClaims(payload.tenant_id,
                                       Get(payload, "org_id", <<>>),
                                       agent,
                                       Get(payload, "scope", <<>>),
                                       Get(payload, "max_tier", <<"read_only">>),
                                       Get(payload, "session_id", <<>>),
                                       Get(payload, "jti", <<>>))

-----------------------------------------------------------------------------
(* token_resolver.py *)

ResolveResult(token, reason) ==
    [kind |-> "ResolveResult", token |-> token, reason |-> reason]

\* A resolver built without stripping the variable's value.
TokenResolverNoStrip(cfg, e) ==
    LET mode == Get(cfg, "mode", "static") IN
    IF mode = "static"
    THEN LET env_var == Get(cfg, "token_env", "CLIENT_API_TOKEN")
             value == EnvGet(e, env_var)
         IN  [mode |-> mode,
              static_token |-> IF value # <<>> THEN Str(value) ELSE None,
              resolver_url |-> None]
    ELSE [mode |-> mode,
          static_token |-> None,
          resolver_url |-> Str(<<"https://api.client">> \o Get(cfg, "resolver_path", <<>>))]

\* TokenResolver.__init__(auth_config, api_base_url)
TokenResolver(cfg, e) ==
    LET mode == Get(cfg, "mode", "static") IN
    IF mode = "static"
    THEN LET env_var == Get(cfg, "token_env", "CLIENT_API_TOKEN")
             value == Strip(EnvGet(e, env_var))
         IN  [mode |-> mode,
              static_token |-> IF value # <<>> THEN Str(value) ELSE None,
              resolver_url |-> None]
    ELSE [mode |-> mode,
          static_token |-> None,
          resolver_url |-> Str(<<"https://api.client">> \o Get(cfg, "resolver_path", <<>>))]

\* An endpoint without any outcome: the await on it never returns.
RepliesNever == {}

\* What the resolver endpoint does when it is contacted.
Replies ==
    {[kind |-> "http", status |-> st, api_token |-> None] : st \in {"200", "404", "500"}}
    \cup {[kind |-> "http", status |-> "200", api_token |-> Str(k)] :
            k \in {<<>>, <<"K4-a">>, <<"K4-b">>}}
    \cup {[kind |-> "timeout", status |-> "", api_token |-> None],
          [kind |-> "connect_error", status |-> "", api_token |-> None]}

\* A resolver that looks at the tenant before the delegation token.
resolve_tenant_first(self, tenant_id, t1_jwt, reply) ==
    IF self.mode = "static"
    THEN [result |-> IF Truthy(self.static_token)
                     THEN ResolveResult(self.static_token, <<"ok">>)
                     ELSE ResolveResult(None, <<"missing_env_var">>),
          post |-> None]
    ELSE IF self.mode = "dynamic"
    THEN IF ~Truthy(tenant_id)
         THEN [result |-> ResolveResult(None, <<"missing_tenant_id">>),
               post |-> None]
         ELSE IF ~Truthy(t1_jwt)
         THEN [result |-> ResolveResult(None, <<"missing_jwt_for_dynamic_mode">>),
               post |-> None]
         ELSE LET post == [kind |-> "post", url |-> self.resolver_url.val,
                           tenant_id |-> tenant_id.val,
                           authorization |-> <<"Bearer ">> \o t1_jwt.val]
              IN  [result |->
                     IF reply.kind = "timeout"
                     THEN ResolveResult(None, <<"resolver_timeout">>)
                     ELSE IF reply.kind = "connect_error"
                     THEN ResolveResult(None, <<"resolver_connection_error">>)
                     ELSE IF reply.status = "200"
                     THEN IF Truthy(reply.api_token)
                          THEN ResolveResult(reply.api_token, <<"ok">>)
                          ELSE ResolveResult(None, <<"no_api_token_in_response">>)
                     ELSE ResolveResult(None, <<"resolver_http_", reply.status>>),
                   post |-> post]
    ELSE [result |-> ResolveResult(None, <<"not_configured">>), post |-> None]

\* A resolver that reports every non-200 status with one reason.
resolve_opaque_status(self, tenant_id, t1_jwt, reply) ==
    IF self.mode = "static"
    THEN [result |-> IF Truthy(self.static_token)
                     THEN ResolveResult(self.static_token, <<"ok">>)
                     ELSE ResolveResult(None, <<"missing_env_var">>),
          post |-> None]
    ELSE IF self.mode = "dynamic"
    THEN IF ~Truthy(t1_jwt)
         THEN [result |-> ResolveResult(None, <<"missing_jwt_for_dynamic_mode">>),
               post |-> None]
         ELSE IF ~Truthy(tenant_id)
         THEN [result |-> ResolveResult(None, <<"missing_tenant_id">>),
               post |-> None]
         ELSE LET post == [kind |-> "post", url |-> self.resolver_url.val,
                           tenant_id |-> tenant_id.val,
                           authorization |-> <<"Bearer ">> \o t1_jwt.val]
              IN  [result |->
                     IF reply.kind = "timeout"
                     THEN ResolveResult(None, <<"resolver_timeout">>)
                     ELSE IF reply.kind = "connect_error"
                     THEN ResolveResult(None, <<"resolver_connection_error">>)
                     ELSE IF reply.status = "200"
                     THEN IF Truthy(reply.api_token)
                          THEN ResolveResult(reply.api_token, <<"ok">>)
                          ELSE ResolveResult(None, <<"no_api_token_in_response">>)
                     ELSE ResolveResult(None, <<"resolver_http_error">>),
                   post |-> post]
    ELSE [result |-> ResolveResult(None, <<"not_configured">>), post |-> None]

\* TokenResolver.resolve(tenant_id, t1_jwt), with reply the endpoint's
\* behaviour should the call reach it.  result is what resolve returns,
\* post the request it issued (None when it issued none).
resolve(self, tenant_id, t1_jwt, reply) ==
    IF self.mode = "static"
    THEN [result |-> IF Truthy(self.static_token)
                     THEN ResolveResult(self.static_token, <<"ok">>)
                     ELSE ResolveResult(None, <<"missing_env_var">>),
          post |-> None]
    ELSE IF self.mode = "dynamic"
    THEN IF ~Truthy(t1_jwt)
         THEN [result |-> ResolveResult(None, <<"missing_jwt_for_dynamic_mode">>),
               post |-> None]
         ELSE IF ~Truthy(tenant_id)
         THEN [result |-> ResolveResult(None, <<"missing_tenant_id">>),
               post |-> None]
         ELSE LET post == [kind |-> "post", url |-> self.resolver_url.val,
                           tenant_id |-> tenant_id.val,
                           authorization |-> <<"Bearer ">> \o t1_jwt.val]
              IN  [result |->
                     IF reply.kind = "timeout"
                     THEN ResolveResult(None, <<"resolver_timeout">>)
                     ELSE IF reply.kind = "connect_error"
                     THEN ResolveResult(None, <<"resolver_connection_error">>)
                     ELSE IF reply.status = "200"
                     THEN IF Truthy(reply.api_token)
                          THEN ResolveResult(reply.api_token, <<"ok">>)
                          ELSE ResolveResult(None, <<"no_api_token_in_response">>)
                     ELSE ResolveResult(None, <<"resolver_http_", reply.status>>),
                   post |-> post]
    ELSE [result |-> ResolveResult(None, <<"not_configured">>), post |-> None]

-----------------------------------------------------------------------------
(* api_client.py *)

\* repr() of a str or None
Repr(v) == IF v.kind = "None" THEN <<"None">> ELSE <<"'">> \o v.val \o <<"'">>

\* What an f-string makes of a value: a str is itself, None is "None", a
\* dataclass is its generated repr.
Format(v) ==
    CASE v.kind = "str" -> v.val
      [] v.kind = "None" -> <<"None">>
      [] v.kind = "ResolveResult" ->
            <<"ResolveResult(token=">> \o Repr(v.token) \o <<", reason=">>
            \o Repr(Str(v.reason)) \o <<")">>
      [] OTHER -> <<"<object>">>

\* ApiClient.request(method, path, token): the HTTP request it issues.
ApiRequest(method, path, token) ==
    [method |-> method, path |-> path,
     authorization |-> <<"Bearer ">> \o Format(token)]

-----------------------------------------------------------------------------
(* manifest.py and the loaded manifest *)

NoActions == [a \in {} |-> None]

\* _manifest["entities"]: a multi-record entity with actions, a singleton
\* without search or actions, and an entity that is not readable.
Entities ==
    (<<"aircraft">> :>
        [path |-> <<"/aircraft">>, id_field |-> Str(<<"id">>), read |-> TRUE,
         search |-> TRUE,
         actions |-> (<<"create">> :> [method |-> "POST", path |-> <<"/aircraft">>])
                  @@ (<<"update">> :> [method |-> "PATCH",
                                       path |-> <<"/aircraft/", "{id}">>])])
    @@ (<<"company">> :>
        [path |-> <<"/company">>, id_field |-> None, read |-> TRUE])
    @@ (<<"audit">> :>
        [path |-> <<"/audit">>, id_field |-> Str(<<"id">>), read |-> FALSE,
         search |-> TRUE, actions |-> NoActions])

\* get_entity(manifest, name): the entity definition, or None
get_entity(name) == IF name \in DOMAIN Entities THEN Entities[name] ELSE None

\* get_entity_actions(manifest, entity_name): empty when there are none
get_entity_actions(entity_name) ==
    IF entity_name \notin DOMAIN Entities THEN NoActions
    ELSE Get(Entities[entity_name], "actions", NoActions)

-----------------------------------------------------------------------------
(* server.py: request context *)

\* A context that belongs to the process, not to the task.
CtxOfGlobal(c) == "B"

\* One module-level variable shared by every task.
CtxOfShared(c) == "A"

\* Each call is handled in its own task, and a ContextVar is read and written
\* in the context of the running task: CtxOf(c) is the context of the task
\* handling call c.
CtxOf(c) == c

EmptyContext == [claims |-> None, token |-> None, t1_jwt |-> None]

\* _resolve_token() in the task of call c
_resolve_token(c) == ctx[CtxOf(c)].token

\* _get_claims() in the task of call c
_get_claims(c) == ctx[CtxOf(c)].claims

\* x in list
InList(x, list) == \E i \in 1..Len(list) : list[i] = x

\* A scope check that lets "<operation>:*" stand for every entity.
_check_scope_wildcard(entity, operation, c) ==
    LET claims == ctx[CtxOf(c)].claims
        required_scope == operation \o <<":">> \o entity
    IN  IF claims.kind = "None" THEN None
        ELSE IF ~(InList(required_scope, claims.scope)
                  \/ InList(operation \o <<":", "*">>, claims.scope))
        THEN [kind |-> "dict", success |-> FALSE, error |-> <<"not authorized">>]
        ELSE None

\* A scope check that refuses a call without claims.
_check_scope_claims_required(entity, operation, c) ==
    LET claims == ctx[CtxOf(c)].claims
        required_scope == operation \o <<":">> \o entity
    IN  IF claims.kind = "None" \/ ~InList(required_scope, claims.scope)
        THEN [kind |-> "dict", success |-> FALSE, error |-> <<"not authorized">>]
        ELSE None

\* _check_scope(entity, operation) in the task of call c: None if
\* authorized, else an error dict.
_check_scope(entity, operation, c) ==
    LET claims == _get_claims(c)
        required_scope == operation \o <<":">> \o entity
    IN  IF claims.kind = "None" THEN None
        ELSE IF ~InList(required_scope, claims.scope)
        THEN [kind |-> "dict", success |-> FALSE,
              error |-> <<"Agent '">> \o claims.agent \o <<"' not authorized for '">>
                        \o required_scope \o <<"'.">>]
        ELSE None

-----------------------------------------------------------------------------
(* server.py: tool handlers.  Each yields out (what it returned), req (the *)
(* backend request it issued, or None) and checked (the scope it checked,  *)
(* or None when _check_scope was not called).                              *)

NotConfigured == [out |-> "not_configured", req |-> None, checked |-> None]
NotAvailable == [out |-> "not_available", req |-> None, checked |-> None]
ScopeDenied(scope) == [out |-> "scope_denied", req |-> None, checked |-> Str(scope)]
NoToken(checked) == [out |-> "no_api_token", req |-> None, checked |-> checked]
NeedsId(checked) == [out |-> "requires_id", req |-> None, checked |-> checked]
Forwarded(req, checked) == [out |-> "forwarded", req |-> req, checked |-> checked]

get_entity_fn(entity, id, c) ==
    LET entity_def == get_entity(entity)
        token == _resolve_token(c)
        checked == Str(<<"read">> \o <<":">> \o entity)
    IN  IF entity_def = None THEN NotConfigured
        ELSE IF ~Get(entity_def, "read", FALSE) THEN NotAvailable
        ELSE IF _check_scope(entity, <<"read">>, c) # None THEN ScopeDenied(checked.val)
        ELSE IF ~Truthy(token) THEN NoToken(checked)
        ELSE IF entity_def.id_field = None
             THEN Forwarded(ApiRequest("GET", entity_def.path, token), checked)
        ELSE IF ~Truthy(id) THEN NeedsId(checked)
        ELSE Forwarded(ApiRequest("GET", entity_def.path \o <<"/">> \o id.val, token),
                       checked)

list_entities(entity, c) ==
    LET entity_def == get_entity(entity)
        token == _resolve_token(c)
        checked == Str(<<"read">> \o <<":">> \o entity)
    IN  IF entity_def = None THEN NotConfigured
        ELSE IF ~Get(entity_def, "read", FALSE) THEN NotAvailable
        ELSE IF _check_scope(entity, <<"read">>, c) # None THEN ScopeDenied(checked.val)
        ELSE IF ~Truthy(token) THEN NoToken(checked)
        ELSE Forwarded(ApiRequest("GET", entity_def.path, token), checked)

search(entity, c) ==
    LET token == _resolve_token(c) IN
    IF entity # None
    THEN LET entity_def == get_entity(entity.val)
             checked == Str(<<"read">> \o <<":">> \o entity.val)
         IN  IF entity_def = None THEN NotConfigured
             ELSE IF ~Get(entity_def, "search", FALSE) THEN NotAvailable
             ELSE IF _check_scope(entity.val, <<"read">>, c) # None
                  THEN ScopeDenied(checked.val)
             ELSE IF ~Truthy(token) THEN NoToken(checked)
             ELSE Forwarded(ApiRequest("GET", entity_def.path, token), checked)
    ELSE IF ~Truthy(token) THEN NoToken(None)
    ELSE Forwarded(ApiRequest("GET", <<"/search">>, token), None)

action(entity, act, id, c) ==
    LET entity_def == get_entity(entity)
        actions == get_entity_actions(entity)
        token == _resolve_token(c)
        checked == Str(<<"write">> \o <<":">> \o entity)
    IN  IF entity_def = None THEN NotConfigured
        ELSE IF DOMAIN actions = {} THEN NotAvailable
        ELSE IF act \notin DOMAIN actions THEN NotAvailable
        ELSE IF _check_scope(entity, <<"write">>, c) # None THEN ScopeDenied(checked.val)
        ELSE IF ~Truthy(token) THEN NoToken(checked)
        ELSE LET action_def == actions[act] IN
             IF Count(action_def.path, "{id}") > 0
             THEN IF id = None THEN NeedsId(checked)
                  ELSE Forwarded(ApiRequest(action_def.method,
                                            Replace(action_def.path, "{id}", id.val), token),
                                 checked)
             ELSE Forwarded(ApiRequest(action_def.method, action_def.path, token),
                            checked)

-----------------------------------------------------------------------------
(* server.py: startup configuration *)

\* _load_api_keys(): the keys of MCP_API_KEY and MCP_API_KEYS
_load_api_keys(e) ==
    LET single_key == Strip(EnvGet(e, "MCP_API_KEY"))
        multi_keys == Strip(EnvGet(e, "MCP_API_KEYS"))
        pieces == IF multi_keys # <<>> THEN Split(multi_keys, <<>>) ELSE <<>>
    IN  (IF single_key # <<>> THEN {single_key} ELSE {})
        \cup {Strip(pieces[i]) : i \in {j \in 1..Len(pieces) : Strip(pieces[j]) # <<>>}}

\* The environments a deployment may start with.
Environments ==
    [MCP_JWT_PUBLIC_KEY_PATH : {<<>>, <<"/missing.pem">>, <<"/empty.pem">>, <<"/k3.pem">>},
     MCP_API_KEY : {<<>>, <<"legacy-abc">>},
     MCP_API_KEYS : {<<>>, <<" ", "a", ".", "b", ".", "c", " ", ",", ",", "key-2">>},
     CLIENT_API_TOKEN : {<<>>, <<"K4">>, <<" ">>}]

\* The auth section of a valid manifest (_validate_auth).
AuthConfigs ==
    {[mode |-> "static", token_env |-> "CLIENT_API_TOKEN"],
     [mode |-> "dynamic", resolver_path |-> <<"/resolve">>]}

-----------------------------------------------------------------------------
(* Inbound requests *)

\* Bearer values a caller may present.
Credentials ==
    {Jwt("hdr_RS256", p, "sig_K2") : p \in DOMAIN Payloads \ {"p_agents"}}
    \cup {Jwt("hdr_RS256", "p_t1", "sig_Kx"), Jwt("hdr_HS256", "p_t1", "mac_K3"),
          <<"not", ".", "a", ".", "jwt">>,
          <<"legacy-abc">>, <<"key-2">>, <<"a", ".", "b", ".", "c">>, <<"wrong-key">>}

\* Authorization header values: absent, "Bearer <value>", "Bearer " alone,
\* and a raw value without the prefix.
AuthHeaders ==
    {<<>>, <<"Bearer ">>}
    \cup {<<"Bearer ">> \o v : v \in Credentials}
    \cup {<<"legacy-abc">>, Jwt("hdr_RS256", "p_t1", "sig_K2")}

Requests == [path : {"/health", "/mcp"}, authorization : AuthHeaders]

\* Arguments of the tool invocations a call may make.
EntityArgs == {<<"aircraft">>, <<"company">>, <<"audit">>, <<"ghost">>}
IdArgs == {None, Str(<<"42">>)}

Invocations ==
    {[tool |-> "get_entity", entity |-> Str(e), id |-> i, action |-> <<>>] :
        e \in {<<"aircraft">>, <<"company">>}, i \in IdArgs}
    \cup {[tool |-> "get_entity", entity |-> Str(e), id |-> None, action |-> <<>>] :
        e \in EntityArgs}
    \cup {[tool |-> "list_entities", entity |-> Str(e), id |-> None, action |-> <<>>] :
        e \in EntityArgs}
    \cup {[tool |-> "search", entity |-> e, id |-> None, action |-> <<>>] :
        e \in {Str(x) : x \in EntityArgs} \cup {None}}
    \cup {[tool |-> "action", entity |-> Str(<<"aircraft">>), id |-> i, action |-> a] :
        i \in IdArgs, a \in {<<"create">>, <<"update">>, <<"launch">>}}
    \cup {[tool |-> "action", entity |-> Str(e), id |-> None, action |-> <<"create">>] :
        e \in EntityArgs}

\* The handler of an invocation, run in the task of call c.
Handle(inv, c) ==
    CASE inv.tool = "get_entity" -> get_entity_fn(inv.entity.val, inv.id, c)
      [] inv.tool = "list_entities" -> list_entities(inv.entity.val, c)
      [] inv.tool = "search" -> search(inv.entity, c)
      [] inv.tool = "action" -> action(inv.entity.val, inv.action, inv.id, c)

-----------------------------------------------------------------------------
(* Initial states: the process after import of server.py, no call handled *)

NoRequest == [path |-> "", authorization |-> <<>>]

NoLocals == [branch |-> "", token |-> <<>>, claims |-> None, k4 |-> None]

\* Module-level state of server.py for environment e and manifest auth
\* section cfg.
Startup(e, cfg) ==
    /\ env = e
    /\ auth_config = cfg
    /\ _public_key = load_public_key(EnvGet(e, "MCP_JWT_PUBLIC_KEY_PATH"))
    /\ _legacy_api_keys = _load_api_keys(e)
    /\ _resolver = TokenResolver(cfg, e)

Idle ==
    /\ now = 0
    /\ pc = [c \in Calls |-> "idle"]
    /\ locals = [c \in Calls |-> NoLocals]
    /\ ctx = [c \in Calls |-> EmptyContext]
    /\ response = [c \in Calls |-> None]
    /\ tool = [c \in Calls |-> None]
    /\ ntools = [c \in Calls |-> 0]
    /\ resolver_posts = {}
    /\ resolved = None
    /\ loaded = None
    /\ tenants = {}
    /\ db_call = None

\* One inbound call, any configuration, any request.
Init ==
    /\ \E e \in Environments, cfg \in AuthConfigs :
          /\ cfg.mode = "dynamic" => e.CLIENT_API_TOKEN = <<>>
          /\ Startup(e, cfg)
    /\ \E r \in Requests : request = [c \in Calls |-> IF c = "A" THEN r ELSE NoRequest]
    /\ Idle

-----------------------------------------------------------------------------
(* server.py: AuthMiddleware.dispatch, split at its await points *)

\* A dispatch without exempt paths.
is_exempt_never(path) == FALSE

\* A path dispatch passes on without authentication.
is_exempt(path) == path = "/health"

\* Arguments that hand the bearer to the resolver on every branch.
ResolveArgsBearerAlways(l) ==
    [tenant_id |-> IF l.branch = "t1" THEN Str(l.claims.tenant_id) ELSE Str(<<"default">>),
     t1_jwt |-> Str(l.token)]

\* The arguments dispatch gives _resolver.resolve: the tenant of the claims
\* and the bearer on the delegation branch, none on the development and
\* legacy branches.
ResolveArgs(l) ==
    IF l.branch = "t1"
    THEN [tenant_id |-> Str(l.claims.tenant_id), t1_jwt |-> Str(l.token)]
    ELSE [tenant_id |-> None, t1_jwt |-> None]

JSONResponse(status_code, error) ==
    [kind |-> "JSONResponse", status_code |-> status_code, error |-> error]

\* A rejection that builds the response but lets the call run on.
RejectAndCallNext(c, resp) ==
    /\ pc' = [pc EXCEPT ![c] = "call_next"]
    /\ response' = [response EXCEPT ![c] = resp]

\* `return JSONResponse(...)`: dispatch ends with the response.
Reject(c, resp) ==
    /\ pc' = [pc EXCEPT ![c] = "done"]
    /\ response' = [response EXCEPT ![c] = resp]

\* dispatch up to its first await: the exempt path, header parsing, the
\* development-mode test, the missing-bearer test, token validation and the
\* legacy key test.
Begin(c) ==
    /\ pc[c] = "idle"
    /\ request[c] # NoRequest
    /\ LET auth_header == request[c].authorization
           token == IF StartsWith(auth_header, "Bearer ") THEN Tail(auth_header) ELSE <<>>
           claims == validate_delegation_token(token, _public_key.val, now)
       IN  IF is_exempt(request[c].path)
           THEN /\ pc' = [pc EXCEPT ![c] = "call_next"]
                /\ locals' = [locals EXCEPT ![c].branch = "exempt"]
                /\ UNCHANGED response
           ELSE IF ~Truthy(_public_key) /\ _legacy_api_keys = {}
           THEN /\ pc' = [pc EXCEPT ![c] = "resolve"]
                /\ locals' = [locals EXCEPT ![c].branch = "dev", ![c].token = token]
                /\ UNCHANGED response
           ELSE IF token = <<>>
           THEN /\ Reject(c, JSONResponse(401, <<"Missing authorization">>))
                /\ locals' = [locals EXCEPT ![c].token = token]
           ELSE IF Truthy(_public_key) /\ Count(token, ".") = 2
           THEN IF Truthy(claims)
                THEN /\ pc' = [pc EXCEPT ![c] = "resolve"]
                     /\ locals' = [locals EXCEPT ![c].branch = "t1", ![c].token = token,
                                                 ![c].claims = claims]
                     /\ UNCHANGED response
                ELSE /\ Reject(c, JSONResponse(401, <<"Invalid or expired T1 token">>))
                     /\ locals' = [locals EXCEPT ![c].token = token]
           ELSE IF _legacy_api_keys # {} /\ token \in _legacy_api_keys
           THEN /\ pc' = [pc EXCEPT ![c] = "resolve"]
                /\ locals' = [locals EXCEPT ![c].branch = "legacy", ![c].token = token]
                /\ UNCHANGED response
           ELSE /\ Reject(c, JSONResponse(401, <<"Invalid credentials">>))
                /\ locals' = [locals EXCEPT ![c].token = token]
    /\ UNCHANGED <<config_vars, now, request, ctx, tool, ntools, resolver_posts, resolved, aux_vars>>

\* `await _resolver.resolve(...)` returns and dispatch runs on to
\* `await call_next(request)` or to the 403 response.
ResolveReturn(c, reply) ==
    /\ pc[c] = "resolve"
    /\ LET l == locals[c]
           args == ResolveArgs(l)
           r == resolve(_resolver, args.tenant_id, args.t1_jwt, reply)
           k4 == r.result
       IN  /\ resolver_posts' = IF r.post = None THEN resolver_posts
                                ELSE resolver_posts \cup {[call |-> c, post |-> r.post]}
           /\ locals' = [locals EXCEPT ![c].k4 = k4]
           /\ IF l.branch = "t1" /\ ~Truthy(k4)
              THEN /\ Reject(c, JSONResponse(403, <<"No API token for tenant '">>
                                                  \o l.claims.tenant_id \o <<"'">>))
                   /\ UNCHANGED ctx
              ELSE /\ ctx' = [ctx EXCEPT ![CtxOf(c)] =
                                [claims |-> IF l.branch = "t1" THEN l.claims ELSE None,
                                 token |-> k4,
                                 t1_jwt |-> IF l.branch = "t1" THEN Str(l.token) ELSE None]]
                   /\ pc' = [pc EXCEPT ![c] = "call_next"]
                   /\ UNCHANGED response
    /\ UNCHANGED <<config_vars, now, request, tool, ntools, resolved, aux_vars>>

\* Downstream processing of call c invokes a tool.
ToolCall(c, inv) ==
    /\ pc[c] = "call_next"
    /\ request[c].path = "/mcp"
    /\ ntools[c] < MaxToolCalls
    /\ LET h == Handle(inv, c) IN
          /\ tool' = [tool EXCEPT ![c] =
                        [kind |-> "invocation", inv |-> inv, out |-> h.out, req |-> h.req,
                         checked |-> h.checked,
                         claims |-> _get_claims(c), token |-> _resolve_token(c),
                         others |-> [d \in Calls \ {c} |-> pc[d]]]]
    /\ ntools' = [ntools EXCEPT ![c] = @ + 1]
    /\ UNCHANGED <<config_vars, now, request, pc, locals, ctx, response, resolver_posts,
                   resolved, aux_vars>>

\* A finally clause that clears the credential only.
FinallyTokenOnly(branch, cur) ==
    IF branch = "exempt" THEN cur ELSE [cur EXCEPT !.token = None]

\* The finally clause around `await call_next(request)` of the branch taken,
\* applied to the context cur: the delegation branch clears all three
\* variables, the development and legacy branches clear _current_token, the
\* exempt path has none.
Finally(branch, cur) ==
    CASE branch = "exempt" -> cur
      [] branch = "t1" -> [claims |-> None, token |-> None, t1_jwt |-> None]
      [] OTHER -> [cur EXCEPT !.token = None]

\* `await call_next(request)` returns a response or raises; the finally
\* clause of the branch taken runs either way.
CallNextReturn(c, raised) ==
    /\ pc[c] = "call_next"
    /\ pc' = [pc EXCEPT ![c] = "done"]
    /\ response' = [response EXCEPT ![c] =
                      IF raised THEN [kind |-> "raised"] ELSE [kind |-> "downstream"]]
    /\ ctx' = [ctx EXCEPT ![CtxOf(c)] = Finally(locals[c].branch, @)]
    /\ UNCHANGED <<config_vars, now, request, locals, tool, ntools, resolver_posts,
                   resolved, aux_vars>>

\* Time passes.
Tick ==
    /\ now < MaxTime
    /\ now' = now + 1
    /\ UNCHANGED <<config_vars, request, pc, locals, ctx, response, tool, ntools,
                   resolver_posts, resolved, aux_vars>>

Next ==
    \/ \E c \in Calls : Begin(c)
    \/ \E c \in Calls, reply \in Replies : ResolveReturn(c, reply)
    \/ \E c \in Calls, inv \in Invocations : ToolCall(c, inv)
    \/ \E c \in Calls, raised \in BOOLEAN : CallNextReturn(c, raised)
    \/ Tick

Spec == Init /\ [][Next]_vars

-----------------------------------------------------------------------------
(* Two calls handled concurrently by one process *)

ConcEnvironments ==
    {e \in Environments :
        /\ e.MCP_JWT_PUBLIC_KEY_PATH = <<"/k3.pem">>
        /\ e.MCP_API_KEY = <<"legacy-abc">>
        /\ e.MCP_API_KEYS = <<>>
        /\ e.CLIENT_API_TOKEN \in {<<>>, <<"K4">>}}

ConcRequests ==
    [path : {"/mcp"},
     authorization : {<<"Bearer ">> \o Jwt("hdr_RS256", "p_t1", "sig_K2"),
                      <<"Bearer ">> \o Jwt("hdr_RS256", "p_t2", "sig_K2"),
                      <<"Bearer ", "legacy-abc">>}]

ConcInvocations ==
    {inv \in Invocations :
        /\ inv.entity \in {None, Str(<<"aircraft">>)}
        /\ inv.id # None
        /\ inv.action \in {<<>>, <<"update">>}}

ConcReplies ==
    {r \in Replies :
        \/ r.kind = "timeout"
        \/ r.status = "404"
        \/ r.api_token \in {Str(<<"K4-a">>), Str(<<"K4-b">>)}}

InitConc ==
    /\ \E e \in ConcEnvironments, cfg \in AuthConfigs :
          /\ cfg.mode = "dynamic" => e.CLIENT_API_TOKEN = <<>>
          /\ Startup(e, cfg)
    /\ request \in [Calls -> ConcRequests]
    /\ Idle

NextConc ==
    \/ \E c \in Calls : Begin(c)
    \/ \E c \in Calls, reply \in ConcReplies : ResolveReturn(c, reply)
    \/ \E c \in Calls, inv \in ConcInvocations : ToolCall(c, inv)
    \/ \E c \in Calls, raised \in BOOLEAN : CallNextReturn(c, raised)
    \/ Tick

SpecConc == InitConc /\ [][NextConc]_vars

-----------------------------------------------------------------------------
(* One call under a deployment with verification key and legacy key, any
   bearer *)

TokenEnvironments ==
    {e \in Environments :
        /\ e.MCP_JWT_PUBLIC_KEY_PATH = <<"/k3.pem">>
        /\ e.MCP_API_KEY = <<"legacy-abc">>
        /\ e.MCP_API_KEYS = <<>>
        /\ e.CLIENT_API_TOKEN \in {<<>>, <<"K4">>}}

TokenRequests ==
    [path : {"/health", "/mcp"},
     authorization : AuthHeaders
                     \cup {<<"Bearer ">> \o Jwt("hdr_RS256", "p_agents", "sig_K2")}]

InitTokens ==
    /\ \E e \in TokenEnvironments, cfg \in AuthConfigs :
          /\ cfg.mode = "dynamic" => e.CLIENT_API_TOKEN = <<>>
          /\ Startup(e, cfg)
    /\ \E r \in TokenRequests :
          request = [c \in Calls |-> IF c = "A" THEN r ELSE NoRequest]
    /\ Idle

SpecTokens == InitTokens /\ [][Next]_vars

\* The event loop runs every call that arrived, and the await on the resolver
\* returns: at once in static mode, and in dynamic mode with the endpoint's
\* answer or, after _RESOLVER_TIMEOUT seconds, with httpx.TimeoutException.
Progress ==
    \A c \in Calls :
        /\ WF_vars(Begin(c))
        /\ WF_vars(\E reply \in Replies : ResolveReturn(c, reply))

SpecLive == InitTokens /\ [][Next]_vars /\ Progress

-----------------------------------------------------------------------------
(* Direct calls of TokenResolver.resolve, with any arguments *)

TenantArgs == {None, Str(<<>>), Str(<<"t-1">>), Str(<<"t-2">>)}

JwtArgs == {None, Str(<<>>), Str(Jwt("hdr_RS256", "p_t1", "sig_K2"))}

\* The values the credential variable may hold when the resolver is built.
ResolverEnvironments ==
    [MCP_JWT_PUBLIC_KEY_PATH : {<<>>},
     MCP_API_KEY : {<<>>},
     MCP_API_KEYS : {<<>>},
     CLIENT_API_TOKEN : {<<>>, <<" ">>, <<"K4">>, <<" ", "K4", " ">>}]

InitResolver ==
    /\ \E e \in ResolverEnvironments, cfg \in AuthConfigs : Startup(e, cfg)
    /\ request = [c \in Calls |-> NoRequest]
    /\ Idle

\* `await _resolver.resolve(tenant_id, t1_jwt)` made directly.
ResolveCall(tenant_id, t1_jwt, reply) ==
    /\ LET r == resolve(_resolver, tenant_id, t1_jwt, reply) IN
          resolved' = [kind |-> "resolve", tenant_id |-> tenant_id, t1_jwt |-> t1_jwt,
                       reply |-> reply, result |-> r.result, post |-> r.post]
    /\ UNCHANGED <<config_vars, now, request, pc, locals, ctx, response, tool, ntools,
                   resolver_posts, aux_vars>>

NextResolver ==
    \E tenant_id \in TenantArgs, t1_jwt \in JwtArgs, reply \in Replies :
        ResolveCall(tenant_id, t1_jwt, reply)

SpecResolver == InitResolver /\ [][NextResolver]_vars

-----------------------------------------------------------------------------
(* manifest.py: load_manifest and its validation *)

Bool(b) == [kind |-> "bool", val |-> b]

\* A JSON object is a record of its keys; any other JSON value is tagged
\* with its kind.
IsDict(v) == "kind" \notin DOMAIN v

\* ", ".join(sorted(missing))
RECURSIVE Join(_)
Join(names) ==
    IF names = <<>> THEN <<>>
    ELSE IF Len(names) = 1 THEN <<names[1]>>
    ELSE <<names[1], ", ">> \o Join(Tail(names))

SortedMissing(required, keys) ==
    LET IsMissing(f) == f \notin keys IN Join(SelectSeq(required, IsMissing))

_VALID_METHODS == {"GET", "POST", "PUT", "PATCH", "DELETE"}

\* _validate_action(entity_name, action_name, action_def): the message of the
\* ValueError it raises, <<>> when it returns.
_validate_action(entity_name, action_name, action_def) ==
    LET where == <<"Entity '", entity_name, "' action '", action_name, "'">> IN
    IF ~IsDict(action_def) THEN where \o <<" must be an object">>
    ELSE IF {"method", "path"} \ DOMAIN action_def # {}
    THEN where \o <<" missing required fields: ">>
         \o SortedMissing(<<"method", "path">>, DOMAIN action_def)
    ELSE IF action_def.method \notin _VALID_METHODS
    THEN where \o <<": method must be one of the valid methods, got '",
                    action_def.method, "'">>
    ELSE IF action_def.path.kind # "str" \/ action_def.path.val = <<>>
    THEN where \o <<": path must be a non-empty string">>
    ELSE <<>>

\* _validate_entity(name, entity): the message of the ValueError it raises,
\* <<>> when it returns.
_validate_entity(name, entity) ==
    LET where == <<"Entity '", name, "'">> IN
    IF ~IsDict(entity) THEN where \o <<" must be an object">>
    ELSE IF {"path", "id_field", "read"} \ DOMAIN entity # {}
    THEN where \o <<" missing required fields: ">>
         \o SortedMissing(<<"id_field", "path", "read">>, DOMAIN entity)
    ELSE IF entity.path.kind # "str" \/ entity.path.val = <<>>
    THEN where \o <<": path must be a non-empty string">>
    ELSE IF entity.read.kind # "bool"
    THEN where \o <<": read must be a boolean">>
    ELSE IF "search" \in DOMAIN entity /\ entity.search.kind # "bool"
    THEN where \o <<": search must be a boolean">>
    ELSE IF "actions" \notin DOMAIN entity THEN <<>>
    ELSE IF ~IsDict(entity.actions)
    THEN where \o <<": actions must be an object">>
    ELSE LET names == SelectSeq(<<"create", "update">>,
                                LAMBDA a : a \in DOMAIN entity.actions)
             errors == [i \in 1..Len(names) |->
                          _validate_action(name, names[i], entity.actions[names[i]])]
             failed == SelectSeq(errors, LAMBDA e : e # <<>>)
         IN  IF failed = <<>> THEN <<>> ELSE failed[1]

\* _validate_auth(manifest): the message of the ValueError it raises, <<>>
\* when it returns.
_validate_auth(manifest) ==
    IF "auth" \notin DOMAIN manifest THEN <<>>
    ELSE LET auth == manifest.auth IN
    IF ~IsDict(auth) THEN <<"auth", " must be an object">>
    ELSE LET mode == IF "mode" \in DOMAIN auth THEN auth.mode ELSE "None" IN
    IF mode \notin {"static", "dynamic"}
    THEN <<"auth", ".mode must be one of the valid modes, got '", mode, "'">>
    ELSE IF mode = "static"
    THEN IF "token_env" \notin DOMAIN auth \/ ~Truthy(auth.token_env)
         THEN <<"auth", ".token_env must be a non-empty string for static mode">>
         ELSE <<>>
    ELSE IF "resolver_path" \notin DOMAIN auth \/ ~Truthy(auth.resolver_path)
    THEN <<"auth", ".resolver_path must be a non-empty string for dynamic mode">>
    ELSE IF ~StartsWith(auth.resolver_path.val, "/")
    THEN <<"auth", ".resolver_path must start with /">>
    ELSE <<>>

\* _validate(manifest, path): the message of the ValueError it raises, <<>>
\* when it returns.  entities keeps the order of the JSON object.
_validate(manifest) ==
    IF "api_base_url" \notin DOMAIN manifest
    THEN <<"Manifest missing required field: ", "api_base_url">>
    ELSE IF manifest.api_base_url.kind # "str" \/ manifest.api_base_url.val = <<>>
    THEN <<"api_base_url", " must be a non-empty string">>
    ELSE IF "entities" \notin DOMAIN manifest
    THEN <<"Manifest missing required field: ", "entities">>
    ELSE IF manifest.entities = <<>>
    THEN <<"entities", " must be a non-empty object">>
    ELSE LET errors == [i \in 1..Len(manifest.entities) |->
                          _validate_entity(manifest.entities[i].name,
                                           manifest.entities[i].def)]
             failed == SelectSeq(errors, LAMBDA e : e # <<>>)
         IN  IF failed # <<>> THEN failed[1] ELSE _validate_auth(manifest)

\* load_manifest(path) for a file that holds the JSON object manifest: the
\* ValueError raised, or the manifest returned.
load_manifest(manifest) ==
    LET error == _validate(manifest) IN
    IF error # <<>> THEN [raised |-> "ValueError", message |-> error]
    ELSE [raised |-> "", message |-> <<>>]

GoodEntity ==
    [path |-> Str(<<"/api/v1/aircraft">>), id_field |-> Str(<<"id">>), read |-> Bool(TRUE)]

\* Entity definitions a manifest may hold.
EntityDefs ==
    {GoodEntity,
     [path |-> Str(<<"/api/v1/aircraft">>)],
     [GoodEntity EXCEPT !.path = Str(<<>>)],
     [GoodEntity EXCEPT !.read = Str(<<"yes">>)],
     [path |-> Str(<<"/api/v1/aircraft">>), id_field |-> Str(<<"id">>), read |-> Bool(TRUE),
      actions |-> [create |-> [method |-> "FETCH", path |-> Str(<<"/api/v1/aircraft">>)]]]}

EntityLists ==
    {<<>>}
    \cup {<<[name |-> "aircraft", def |-> d]>> : d \in EntityDefs}
    \cup {<<[name |-> "aircraft", def |-> d1], [name |-> "company", def |-> d2]>> :
            d1 \in EntityDefs, d2 \in EntityDefs}

AuthSections ==
    {[mode |-> "static", token_env |-> Str(<<"CLIENT_API_TOKEN">>)],
     [mode |-> "oauth"],
     [mode |-> "dynamic", resolver_path |-> Str(<<"resolve">>)]}

\* The JSON objects a manifest file may hold.
Manifests ==
    LET urls == {Str(<<>>), Str(<<"https://api.client">>)} IN
    {[entities |-> es] : es \in EntityLists}
    \cup {[api_base_url |-> u] : u \in urls}
    \cup {[api_base_url |-> u, entities |-> es] : u \in urls, es \in EntityLists}
    \cup {[entities |-> es, auth |-> a] : es \in EntityLists, a \in AuthSections}
    \cup {[api_base_url |-> u, entities |-> es, auth |-> a] :
            u \in urls, es \in EntityLists, a \in AuthSections}

InitManifest ==
    /\ \E e \in ResolverEnvironments, cfg \in AuthConfigs :
          /\ e.CLIENT_API_TOKEN = <<"K4">>
          /\ cfg.mode = "static"
          /\ Startup(e, cfg)
    /\ request = [c \in Calls |-> NoRequest]
    /\ Idle

\* load_manifest is called on a file holding manifest.
LoadManifest(manifest) ==
    /\ loaded' = [kind |-> "load", manifest |-> manifest,
                  outcome |-> load_manifest(manifest)]
    /\ UNCHANGED <<config_vars, now, request, pc, locals, ctx, response, tool, ntools,
                   resolver_posts, resolved, tenants, db_call>>

NextManifest == \E manifest \in Manifests : LoadManifest(manifest)

SpecManifest == InitManifest /\ [][NextManifest]_vars

-----------------------------------------------------------------------------
(* tenant_db.py: the tenants table and its functions.  Every function runs
   one statement in its own transaction, so calls of different processes
   interleave call by call. *)

TenantRow(tenant_id, api_token, name) ==
    [tenant_id |-> tenant_id, api_token |-> api_token, name |-> name]

\* An INSERT that keeps the rows already stored under the key.
InsertKeepingOld(table, row) == table \cup {row}

\* INSERT OR REPLACE INTO tenants ...: tenant_id is the primary key, a row
\* with the same key is deleted before the new one is inserted.
InsertOrReplace(table, row) ==
    {r \in table : r.tenant_id # row.tenant_id} \cup {row}

\* SELECT ... FROM tenants WHERE tenant_id = ?
Select(table, tenant_id) == {r \in table : r.tenant_id = tenant_id}

\* A DELETE without its WHERE clause.
DeleteEveryRow(table, tenant_id) == {}

\* DELETE FROM tenants WHERE tenant_id = ?
Delete(table, tenant_id) == table \ Select(table, tenant_id)

\* cur.rowcount of the DELETE
RowCount(before, after) == Cardinality(before \ after)

\* get_tenant_token(tenant_id): row[0] of fetchone(), or None
get_tenant_token(table, tenant_id) ==
    LET rows == Select(table, tenant_id) IN
    IF rows = {} THEN None ELSE Str((CHOOSE r \in rows : TRUE).api_token)

TenantIds == {<<"t-1">>, <<"t-2">>, <<"t-3">>}
ApiTokens == {<<"tok-a">>, <<"tok-b">>}
TenantNames == {<<>>, <<"Alpha">>}

DbCall(op, tenant_id, api_token, result) ==
    [kind |-> "db_call", op |-> op, tenant_id |-> tenant_id, api_token |-> api_token,
     result |-> result]

db_frame ==
    <<config_vars, now, request, pc, locals, ctx, response, tool, ntools,
      resolver_posts, resolved, loaded>>

AddTenant(tenant_id, api_token, name) ==
    /\ tenants' = InsertOrReplace(tenants, TenantRow(tenant_id, api_token, name))
    /\ db_call' = DbCall("add_tenant", tenant_id, api_token, None)
    /\ UNCHANGED db_frame

RemoveTenant(tenant_id) ==
    /\ tenants' = Delete(tenants, tenant_id)
    /\ db_call' = DbCall("remove_tenant", tenant_id, <<>>,
                         Bool(RowCount(tenants, tenants') > 0))
    /\ UNCHANGED db_frame

GetTenantToken(tenant_id) ==
    /\ db_call' = DbCall("get_tenant_token", tenant_id, <<>>,
                         get_tenant_token(tenants, tenant_id))
    /\ UNCHANGED <<tenants, db_frame>>

InitTenants ==
    /\ \E e \in ResolverEnvironments, cfg \in AuthConfigs :
          /\ e.CLIENT_API_TOKEN = <<"K4">>
          /\ cfg.mode = "static"
          /\ Startup(e, cfg)
    /\ request = [c \in Calls |-> NoRequest]
    /\ Idle

NextTenants ==
    \/ \E t \in TenantIds, k \in ApiTokens, n \in TenantNames : AddTenant(t, k, n)
    \/ \E t \in TenantIds : RemoveTenant(t)
    \/ \E t \in TenantIds : GetTenantToken(t)

SpecTenants == InitTenants /\ [][NextTenants]_vars

-----------------------------------------------------------------------------
(* Claims *)

\* The resolver produced a result without a credential for call c.
NoCredential(c) ==
    /\ locals[c].k4.kind = "ResolveResult"
    /\ locals[c].k4.token = None

Status(c) ==
    IF response[c].kind = "JSONResponse" THEN response[c].status_code ELSE 0

\* C1: a call on a non-exempt path whose bearer is an accepted delegation
\* token and for whose tenant the resolver yields no credential is rejected
\* with status 403 and is never passed to call_next.
C1_ResolutionFailureIs403 ==
    \A c \in Calls :
        (locals[c].branch = "t1" /\ NoCredential(c))
            => (pc[c] = "done" /\ Status(c) = 403)

\* C2: when the resolver produced no credential for the call, a tool handler
\* that gets past its entity and scope checks returns the 'No API token
\* available' error and issues no backend request.
C2_NoCredentialNoBackendRequest ==
    \A c \in Calls :
        (/\ tool[c] # None
         /\ NoCredential(c)
         /\ tool[c].out \notin {"not_configured", "not_available", "scope_denied"})
            => (tool[c].out = "no_api_token" /\ tool[c].req = None)

\* Authentication material is configured: a verification-key path or at
\* least one legacy key.
AuthMaterialConfigured ==
    \/ EnvGet(env, "MCP_JWT_PUBLIC_KEY_PATH") # <<>>
    \/ _load_api_keys(env) # {}

\* C3: the development-mode branch is taken only when no authentication
\* material is configured; with a key path or a legacy key configured no
\* call is let through on the development-mode branch.
C3_DevModeOnlyWithoutAuthMaterial ==
    \A c \in Calls : locals[c].branch = "dev" => ~AuthMaterialConfigured

\* C4: once dispatch has finished for a call, _current_claims,
\* _current_token and _current_t1_jwt are all None in its context, on a
\* normal return, an early return and an exception from downstream.
C4_ContextClearedAfterDispatch ==
    \A c \in Calls : pc[c] = "done" => ctx[CtxOf(c)] = EmptyContext

C4_Witness ==
    \E c \in Calls :
        /\ pc[c] = "done"
        /\ locals[c].branch = "t1"
        /\ response[c].kind = "raised"
        /\ tool[c] # None
        /\ tool[c].claims # None

\* What dispatch attached for call c before passing it downstream.
Attached(c) ==
    [claims |-> IF locals[c].branch = "t1" THEN locals[c].claims ELSE None,
     token |-> locals[c].k4]

\* C5: a tool invocation running for call A reads from the context only the
\* claims and credential attached for A, never those attached for another
\* call and never the values another call's cleanup wrote.
C5_ToolReadsOwnContext ==
    \A c \in Calls :
        tool[c] # None
            => [claims |-> tool[c].claims, token |-> tool[c].token] = Attached(c)

C5_Witness ==
    \E c \in Calls, d \in Calls :
        /\ c # d
        /\ tool[c] # None
        /\ tool[c].others[d] = "done"
        /\ response[d].kind \in {"downstream", "raised"}
        /\ locals[c].branch = "t1"
        /\ locals[d].branch = "t1"
        /\ Attached(c) # Attached(d)
        /\ locals[c].k4 # locals[d].k4

\* The checks the claim lists, for bearer tok, verification key and time t.
C6_Checks(tok, key, t) ==
    /\ Len(tok) = 5 /\ tok[2] = "." /\ tok[4] = "."
    /\ tok[1] = "hdr_RS256" /\ tok[5] = "sig_K2" /\ key = Str(<<"K3">>)
    /\ tok[3] \in DOMAIN Payloads
    /\ LET p == Payloads[tok[3]] IN
          /\ "exp" \in DOMAIN p /\ p.exp > t
          /\ "iss" \in DOMAIN p /\ p.iss = Issuer
          /\ "aud" \in DOMAIN p /\ p.aud = Audience
          /\ "tenant_id" \in DOMAIN p /\ p.tenant_id # <<>>

\* A claims object filled from payload p, none of its fields left out.
C6_Filled(cl, p) ==
    /\ DOMAIN cl = {"kind", "tenant_id", "org_id", "agent", "scope", "max_tier",
                    "session_id", "jti"}
    /\ cl.kind = "DelegationClaims"
    /\ cl.tenant_id = p.tenant_id

\* C6: validate_delegation_token returns claims only if the signature
\* verifies under the key with RS256, the expiry is strictly after the
\* current time, issuer and audience are the expected ones and tenant_id is
\* present and non-empty; otherwise dispatch gets None.  Stated of every
\* step in which dispatch validates a bearer.
C6_ValidationAllOrNothing ==
    [][\A c \in Calls :
          (pc[c] = "idle" /\ pc'[c] # "idle" /\ locals'[c].claims # None)
              => /\ C6_Checks(locals'[c].token, _public_key, now)
                 /\ C6_Filled(locals'[c].claims, Payloads[locals'[c].token[3]])]_vars

C6_Witness ==
    \E c \in Calls :
        /\ locals[c].claims # None
        /\ locals[c].claims.tenant_id = <<"t-2">>
        /\ now = 0

\* C7: with claims present, every tool invocation runs the scope check
\* before any backend request, and issues no request when the check denies.
C7_ScopeCheckedBeforeBackend ==
    \A c \in Calls :
        (tool[c] # None /\ tool[c].claims # None /\ tool[c].req # None)
            => /\ tool[c].checked # None
               /\ InList(tool[c].checked.val, tool[c].claims.scope)

\* C8: with claims present, the scope check allows the invocation iff the
\* exact string operation ":" entity is a member of the claims' scope; read
\* tools need "read:<entity>", action needs "write:<entity>".
C8_ExactScopeMembership ==
    \A c \in Calls :
        (/\ tool[c] # None
         /\ tool[c].claims # None
         /\ tool[c].inv.entity # None
         /\ tool[c].out \notin {"not_configured", "not_available"})
            => LET operation == IF tool[c].inv.tool = "action" THEN "write" ELSE "read"
                   required == <<operation, ":">> \o tool[c].inv.entity.val
                   scope == tool[c].claims.scope
               IN  (tool[c].out = "scope_denied")
                       <=> (required \notin {scope[i] : i \in 1..Len(scope)})

C8_Witness ==
    \E c \in Calls :
        /\ tool[c] # None
        /\ tool[c].claims # None
        /\ tool[c].claims.scope = <<Cap("read", "aircraft")>>
        /\ tool[c].inv.tool = "action"
        /\ tool[c].inv.entity = Str(<<"aircraft">>)
        /\ tool[c].inv.action = <<"update">>
        /\ tool[c].out = "scope_denied"

\* C9: with no claims attached (legacy key or development mode) the scope
\* check allows every entity and operation.
C9_NoClaimsNoScopeCheck ==
    \A c \in Calls :
        (tool[c] # None /\ tool[c].claims = None) => tool[c].out # "scope_denied"

C9_Witness ==
    \E c \in Calls :
        /\ locals[c].branch = "legacy"
        /\ tool[c] # None
        /\ tool[c].claims = None
        /\ tool[c].inv.tool = "action"
        /\ tool[c].inv.entity = Str(<<"aircraft">>)
        /\ tool[c].out = "forwarded"

\* C10: on a call authenticated with a delegation token the backend
\* receives "Bearer " followed by exactly the credential the resolver
\* produced, and the attached claims carry the token's tenant.
C10_BackendReceivesResolvedCredential ==
    \A c \in Calls :
        (/\ locals[c].branch = "t1"
         /\ tool[c] # None
         /\ tool[c].req # None
         /\ locals[c].k4.token # None)
            => /\ tool[c].req.authorization = <<"Bearer ">> \o locals[c].k4.token.val
               /\ tool[c].claims.tenant_id = Payloads[locals[c].token[3]].tenant_id

\* C11: dispatch extracts the bearer value from both header forms: after
\* "Bearer <value>" it is <value>, and a header that holds the raw value
\* without the prefix yields that raw value, so that a configured legacy key
\* presented without the prefix is authenticated on the legacy branch.
C11_BearerValueFromBothHeaderForms ==
    \A c \in Calls :
        (pc[c] # "idle" /\ ~is_exempt(request[c].path))
            => LET h == request[c].authorization IN
               /\ locals[c].token = IF StartsWith(h, "Bearer ") THEN Tail(h) ELSE h
               /\ (h \in _legacy_api_keys /\ ~(Truthy(_public_key) /\ Count(h, ".") = 2))
                     => locals[c].branch = "legacy"

\* Validation of bearer tok under key at time t fails for one of the causes
\* the claim lists: malformed, wrong signature or algorithm, expired, wrong
\* issuer or audience, a missing required claim, a missing or empty tenant.
C12_Fails(tok, key, t) ==
    \/ ~C6_Checks(tok, key, t)
    \/ "sub" \notin DOMAIN Payloads[tok[3]]

C12_GenericRejection == JSONResponse(401, <<"Invalid or expired T1 token">>)

\* C12: on a non-exempt path, with a verification key loaded, a bearer with
\* exactly two dots whose validation fails is rejected in the same step with
\* status 401 and the one message 'Invalid or expired T1 token' whatever the
\* cause; nothing is attached to the context and call_next is not reached.
C12_InvalidTokenIs401 ==
    [][\A c \in Calls :
          (/\ pc[c] = "idle" /\ pc'[c] # "idle"
           /\ ~is_exempt(request[c].path)
           /\ Truthy(_public_key)
           /\ Count(locals'[c].token, ".") = 2
           /\ C12_Fails(locals'[c].token, _public_key, now))
              => /\ pc'[c] = "done"
                 /\ response'[c] = C12_GenericRejection
                 /\ ctx' = ctx
                 /\ resolver_posts' = resolver_posts]_vars

\* An expired but otherwise valid token was rejected.
C12_Witness ==
    \E c \in Calls :
        /\ Truthy(_public_key)
        /\ locals[c].token = Jwt("hdr_RS256", "p_t1", "sig_K2")
        /\ pc[c] = "done"
        /\ response[c] = C12_GenericRejection

\* C13: with a verification key loaded or a legacy key configured, a call to
\* a non-exempt path from which no bearer value is extracted is rejected
\* with status 401 'Missing authorization'; no resolver is asked, nothing is
\* attached to the context and nothing runs downstream.
C13_MissingAuthorizationIs401 ==
    \A c \in Calls :
        (/\ pc[c] # "idle"
         /\ ~is_exempt(request[c].path)
         /\ (Truthy(_public_key) \/ _legacy_api_keys # {})
         /\ locals[c].token = <<>>)
            => /\ pc[c] = "done"
               /\ response[c] = JSONResponse(401, <<"Missing authorization">>)
               /\ locals[c].k4 = None
               /\ ctx[CtxOf(c)] = EmptyContext
               /\ tool[c] = None
               /\ resolver_posts = {}

\* A call without Authorization header was rejected while only legacy keys
\* are configured.
C13_Witness ==
    \E c \in Calls :
        /\ request[c] = [path |-> "/mcp", authorization |-> <<>>]
        /\ ~Truthy(_public_key) /\ _legacy_api_keys # {}
        /\ pc[c] = "done"
        /\ Status(c) = 401

\* The bearer of call c, sent after the "Bearer " prefix, equals a configured
\* legacy key.
C14_LegacyBearer(c) ==
    /\ pc[c] # "idle"
    /\ ~is_exempt(request[c].path)
    /\ locals[c].token \in _legacy_api_keys

\* What the claim promises for call c: the resolver is called without tenant
\* and delegation token, so that no request goes to a resolver endpoint, the
\* result is attached with claims and delegation token absent, and the call
\* is passed downstream instead of being rejected.
C14_AllowedThrough(c) ==
    /\ locals[c].branch = "legacy"
    /\ response[c].kind # "JSONResponse"
    /\ \A p \in resolver_posts : p.call # c
    /\ pc[c] \in {"call_next", "done"}
          => /\ locals[c].k4.kind = "ResolveResult"
             /\ _resolver.mode = "dynamic" => locals[c].k4.token = None
    /\ pc[c] = "call_next"
          => ctx[CtxOf(c)] = [claims |-> None, token |-> locals[c].k4, t1_jwt |-> None]

\* C14 as stated: whenever the bearer exactly equals a configured legacy key
\* the call is handled on the legacy branch and allowed through.
C14_LegacyKeyAllowedThrough ==
    \A c \in Calls : C14_LegacyBearer(c) => C14_AllowedThrough(c)

\* C14, amended: a bearer that equals a configured legacy key and is not
\* taken by the delegation-token path (no verification key is loaded, or the
\* bearer does not contain exactly two dots) is handled on the legacy branch
\* and allowed through.
C14_LegacyKeyOffTokenPathAllowedThrough ==
    \A c \in Calls :
        (/\ C14_LegacyBearer(c)
         /\ ~(Truthy(_public_key) /\ Count(locals[c].token, ".") = 2))
            => C14_AllowedThrough(c)

\* A legacy key went downstream under a dynamic resolver, a verification key
\* being loaded as well.
C14_Witness ==
    \E c \in Calls :
        /\ C14_LegacyBearer(c)
        /\ Truthy(_public_key)
        /\ _resolver.mode = "dynamic"
        /\ pc[c] = "call_next"
        /\ ctx[CtxOf(c)].token = ResolveResult(None, <<"missing_jwt_for_dynamic_mode">>)

\* C15: a call to /health is passed downstream whatever its Authorization
\* header and whatever authentication material is configured: the bearer is
\* neither extracted nor validated, the resolver is not called, no response
\* of the middleware replaces the downstream one and the context stays
\* empty.
C15_HealthIsExempt ==
    \A c \in Calls :
        (pc[c] # "idle" /\ request[c].path = "/health")
            => /\ pc[c] \in {"call_next", "done"}
               /\ locals[c] = [NoLocals EXCEPT !.branch = "exempt"]
               /\ response[c].kind # "JSONResponse"
               /\ resolver_posts = {}
               /\ ctx[CtxOf(c)] = EmptyContext

\* /health answered downstream for a bearer that is no configured key, with
\* a verification key and legacy keys configured.
C15_Witness ==
    \E c \in Calls :
        /\ request[c] = [path |-> "/health", authorization |-> <<"Bearer ", "wrong-key">>]
        /\ Truthy(_public_key) /\ _legacy_api_keys # {}
        /\ pc[c] = "done"
        /\ response[c].kind = "downstream"

\* The bearer of call c validated as a delegation token and a credential was
\* resolved for it, or it equals a configured legacy key.
C16_Authenticated(c) ==
    \/ /\ locals[c].branch = "t1"
       /\ locals[c].claims # None
       /\ locals[c].k4.kind = "ResolveResult"
       /\ locals[c].k4.token # None
    \/ /\ locals[c].branch = "legacy"
       /\ locals[c].token \in _legacy_api_keys

\* C16: outside development mode a call to a non-exempt path reaches
\* call_next only if its bearer validated as a delegation token with a
\* credential resolved, or equals a configured legacy key; a call with any
\* other bearer ends rejected with status 401.
C16_FailClosed ==
    \A c \in Calls :
        (/\ pc[c] \in {"call_next", "done"}
         /\ ~is_exempt(request[c].path)
         /\ (Truthy(_public_key) \/ _legacy_api_keys # {})
         /\ ~C16_Authenticated(c))
            => (pc[c] = "done" /\ Status(c) = 401)

C18_StaticOutcome(e) ==
    LET v == Strip(EnvGet(e, "CLIENT_API_TOKEN")) IN
    IF v # <<>> THEN ResolveResult(Str(v), <<"ok">>)
    ELSE ResolveResult(None, <<"missing_env_var">>)

C20_ReturnsCredentialOrNone ==
    resolved # None
        => \/ resolved.result = None
           \/ resolved.result.kind = "str" /\ resolved.result.val # <<>>

\* C21: for every accepted token the agent identifier is the subject with
\* only a leading 'agent:' removed, also when the rest of the subject
\* contains 'agent:' again, and the raw subject when it does not start with
\* 'agent:'.
C21_AgentIsSubjectWithoutPrefix ==
    \A c \in Calls :
        locals[c].claims # None
            => LET sub == Payloads[locals[c].token[3]].sub IN
               locals[c].claims.agent =
                   IF StartsWith(sub, "agent:") THEN Tail(sub) ELSE sub

\* C22: when credential resolution fails for a validated token, the call
\* ends with a rejection whose body names the tenant of the token and
\* carries the reason code of the resolver's result.
C22_RejectionNamesTenantAndReason ==
    \A c \in Calls :
        (locals[c].branch = "t1" /\ NoCredential(c))
            => /\ response[c].kind = "JSONResponse"
               /\ Count(response[c].error, locals[c].claims.tenant_id[1]) > 0
               /\ "reason" \in DOMAIN response[c]
               /\ response[c].reason = locals[c].k4.reason

\* The parts of manifest m that have a structural problem: the base URL, the
\* entities object, each entity by its name, the auth section.
C23_Problems(m) ==
    (IF "api_base_url" \notin DOMAIN m \/ ~Truthy(m.api_base_url)
     THEN {"api_base_url"} ELSE {})
    \cup (IF "entities" \notin DOMAIN m \/ m.entities = <<>> THEN {"entities"} ELSE {})
    \cup (IF "entities" \notin DOMAIN m THEN {}
          ELSE {m.entities[i].name :
                  i \in {j \in 1..Len(m.entities) :
                           _validate_entity(m.entities[j].name, m.entities[j].def) # <<>>}})
    \cup (IF _validate_auth(m) # <<>> THEN {"auth"} ELSE {})

\* C23: loading a manifest with structural problems fails with an error
\* whose message names every problem the manifest has.
C23_EveryProblemReported ==
    loaded # None
        => \A problem \in C23_Problems(loaded.manifest) :
              /\ loaded.outcome.raised = "ValueError"
              /\ Count(loaded.outcome.message, problem) > 0

\* The credentials stored under tenant t in table.
C24_Stored(table, t) == {r.api_token : r \in Select(table, t)}

\* C24: the store never holds two rows for one tenant; add_tenant(t, k, ...)
\* leaves exactly k stored for t, remove_tenant(t) leaves nothing stored for
\* t, neither changes what is stored for another tenant, and
\* get_tenant_token(t) changes nothing and returns the one credential stored
\* for t, or None when there is none.  So a lookup returns the credential of
\* the latest add_tenant(t, ...) that no remove_tenant(t) followed.
C24_UpsertAndLookup ==
    [][/\ \A r1 \in tenants', r2 \in tenants' : r1.tenant_id = r2.tenant_id => r1 = r2
       /\ \A u \in TenantIds \ {db_call'.tenant_id} :
             C24_Stored(tenants', u) = C24_Stored(tenants, u)
       /\ db_call'.op = "add_tenant"
             => C24_Stored(tenants', db_call'.tenant_id) = {db_call'.api_token}
       /\ db_call'.op = "remove_tenant"
             => C24_Stored(tenants', db_call'.tenant_id) = {}
       /\ db_call'.op = "get_tenant_token"
             => /\ tenants' = tenants
                /\ LET stored == C24_Stored(tenants, db_call'.tenant_id) IN
                   db_call'.result = IF stored = {} THEN None
                                     ELSE Str(CHOOSE k \in stored : TRUE)]_vars

\* A lookup returned the credential stored for a tenant while another tenant
\* is registered too.
C24_Witness ==
    /\ db_call # None
    /\ db_call.op = "get_tenant_token"
    /\ db_call.tenant_id = <<"t-1">>
    /\ db_call.result = Str(<<"tok-b">>)
    /\ Select(tenants, <<"t-2">>) # {}

\* C25: add_tenant(t, ...) and remove_tenant(t) leave the row of every other
\* tenant as it was, in every order in which writes for different tenants
\* follow one another, and remove_tenant(t) returns True exactly when a row
\* for t existed before the call.
C25_OtherTenantsUntouched ==
    [][/\ \A u \in TenantIds \ {db_call'.tenant_id} :
             Select(tenants', u) = Select(tenants, u)
       /\ db_call'.op = "remove_tenant"
             => db_call'.result = Bool(Select(tenants, db_call'.tenant_id) # {})]_vars

\* A tenant was removed, the call returned True and another tenant is still
\* stored.
C25_Witness ==
    /\ db_call # None
    /\ db_call.op = "remove_tenant"
    /\ db_call.tenant_id = <<"t-1">>
    /\ db_call.result = Bool(TRUE)
    /\ C24_Stored(tenants, <<"t-2">>) = {<<"tok-a">>}

\* Call c was passed downstream.
C26_Authorized(c) ==
    /\ pc[c] \in {"call_next", "done"}
    /\ response[c].kind # "JSONResponse"

\* Call c ended with a response of the middleware.
C26_Rejected(c) ==
    /\ pc[c] = "done"
    /\ response[c].kind = "JSONResponse"

C27_Class(reply) ==
    CASE reply.kind = "timeout" -> <<"timeout">>
      [] reply.kind = "connect_error" -> <<"unreachable">>
      [] reply.status # "200" -> <<"status", reply.status>>
      [] reply.api_token \in {None, Str(<<>>)} -> <<"no credential">>
      [] OTHER -> <<"credential">>

C28_Bearer(c) ==
    IF StartsWith(request[c].authorization, "Bearer ")
    THEN Tail(request[c].authorization) ELSE <<>>

\* The branch and claims that the bearer of call c and the startup
\* configuration determine, for a bearer validated before its expiry.
C28_Expected(c) ==
    LET bearer == C28_Bearer(c) IN
    IF Truthy(_public_key) /\ C6_Checks(bearer, _public_key, 0)
    THEN [branch |-> "t1",
          claims |-> validate_delegation_token(bearer, _public_key.val, 0)]
    ELSE IF bearer \in _legacy_api_keys
    THEN [branch |-> "legacy", claims |-> None]
    ELSE [branch |-> "", claims |-> None]

\* Calls c and d got the same authentication outcome and, once both are
\* resolved with the same resolver result, the same attached claims and
\* credential, in the context and as read by their tools.
C28_SameOutcome(c, d) ==
    /\ locals[c].branch = locals[d].branch
    /\ locals[c].claims = locals[d].claims
    /\ locals[c].branch = "" => response[c] = response[d]
    /\ (pc[c] \in {"call_next", "done"} /\ pc[d] \in {"call_next", "done"})
          => /\ _resolver.mode = "static" => locals[c].k4 = locals[d].k4
             /\ locals[c].k4 = locals[d].k4
                   => /\ (pc[c] = "call_next" /\ pc[d] = "call_next")
                            => ctx[CtxOf(c)] = ctx[CtxOf(d)]
                      /\ (tool[c] # None /\ tool[d] # None)
                            => /\ tool[c].claims = tool[d].claims
                               /\ tool[c].token = tool[d].token

\* C28 as stated: two calls with the same bearer and path under one startup
\* configuration get the same outcome, claims and credential, whenever they
\* are handled.
C28_SameBearerSameOutcome ==
    \A c \in Calls, d \in Calls :
        (/\ c # d
         /\ request[c] = request[d]
         /\ pc[c] # "idle" /\ pc[d] # "idle")
            => C28_SameOutcome(c, d)

\* C28, amended: a call handled while its bearer, if it is a delegation
\* token, has not expired gets the branch and claims its own bearer and the
\* startup configuration determine, whatever the other call presents and
\* does; two such calls with the same bearer and path get the same outcome,
\* claims and credential.
C28_SameBearerSameOutcomeBeforeExpiry ==
    \A c \in Calls :
        (/\ pc[c] # "idle"
         /\ C6_Checks(C28_Bearer(c), _public_key, 0)
               => C6_Checks(C28_Bearer(c), _public_key, now))
            => /\ [branch |-> locals[c].branch, claims |-> locals[c].claims]
                     = C28_Expected(c)
               /\ \A d \in Calls \ {c} :
                     (request[c] = request[d] /\ pc[d] # "idle")
                         => C28_SameOutcome(c, d)

\* Two calls with the same delegation token and one with a legacy key: both
\* calls with the token read their context downstream, one of them after
\* the other had finished.
C28_Witness ==
    \E c \in Calls, d \in Calls :
        /\ c # d
        /\ request[c] = request[d]
        /\ locals[c].branch = "t1"
        /\ tool[c] # None /\ tool[d] # None
        /\ tool[d].others[c] = "done"
        /\ tool[c].claims = tool[d].claims
        /\ tool[c].claims # None

\* The number of dots in a bearer.
C29_Dots(bearer) == Cardinality({i \in DOMAIN bearer : bearer[i] = "."})

\* C29: with a verification key loaded, a bearer with exactly two dots is
\* never accepted as a legacy key: it is either validated as a delegation
\* token or rejected with 401 "Invalid or expired T1 token", even when it
\* is a configured legacy key; a bearer with another number of dots never
\* gets claims and is never rejected with the delegation-token message.
C29_TwoDotsOnlyTokenPath ==
    \A c \in Calls :
        (/\ Truthy(_public_key)
         /\ pc[c] # "idle"
         /\ ~is_exempt(request[c].path)
         /\ locals[c].token # <<>>)
            => IF C29_Dots(locals[c].token) = 2
               THEN /\ locals[c].branch \in {"t1", ""}
                    /\ locals[c].branch = "t1"
                          <=> Truthy(validate_delegation_token(
                                  locals[c].token, _public_key.val, now))
                              \/ locals[c].claims # None
                    /\ locals[c].branch = ""
                          => response[c] = JSONResponse(401,
                                 <<"Invalid or expired T1 token">>)
               ELSE /\ locals[c].branch \in {"legacy", ""}
                    /\ locals[c].claims = None
                    /\ locals[c].branch = "legacy"
                          <=> locals[c].token \in _legacy_api_keys
                    /\ locals[c].branch = ""
                          => response[c] = JSONResponse(401,
                                 <<"Invalid credentials">>)

\* A configured legacy key with two dots was presented with a verification
\* key loaded and rejected with 401, and so was not accepted as a key.
C29_Witness ==
    \E c \in Calls :
        /\ Truthy(_public_key)
        /\ locals[c].token \in _legacy_api_keys
        /\ C29_Dots(locals[c].token) = 2
        /\ pc[c] = "done"
        /\ locals[c].branch = ""
        /\ response[c] = JSONResponse(401, <<"Invalid or expired T1 token">>)

\* The claims and bearer in the context of call c are those of its own
\* validated delegation token; without such a token both are None.
C30_ClaimsMatchBearer(c) ==
    LET cur == ctx[CtxOf(c)] IN
    /\ cur.claims # None
          => /\ locals[c].branch = "t1"
             /\ cur.t1_jwt = Str(locals[c].token)
             /\ \E t \in 0..now :
                   cur.claims = validate_delegation_token(
                                    locals[c].token, _public_key.val, t)
             /\ cur.token = locals[c].k4
    /\ locals[c].branch \in {"dev", "legacy"}
          => cur.claims = None /\ cur.t1_jwt = None

\* C30: while downstream processing runs, the context is consistent: claims
\* come with the bearer they were validated from and with a credential
\* that was resolved for their tenant; on the development and legacy-key
\* paths there are neither claims nor a bearer.
C30_ContextConsistentDownstream ==
    \A c \in Calls :
        pc[c] = "call_next"
            => /\ C30_ClaimsMatchBearer(c)
               /\ ctx[CtxOf(c)].claims # None
                     => /\ ctx[CtxOf(c)].token.kind = "ResolveResult"
                        /\ ctx[CtxOf(c)].token.token # None

====
